---- MODULE Spec2Model ----
(***************************************************************************)
(* Model of videoplayerfromYTurl.py: main() resolves a YouTube URL to a    *)
(* stream URL (get_video_stream_url), hands it to a VLC MediaPlayer,       *)
(* starts the daemon control thread (listen_for_controls) and polls the    *)
(* player state until it is Ended or Error.                                *)
(***************************************************************************)
EXTENDS Integers, Sequences, FiniteSets, TLC

\* ---------------------------------------------------------------- bounds
MaxUrlLen == 2
MaxFormats == 3
MaxLines == 3
MaxCmds == 3
GapCap == 6

\* ------------------------------------------------------ program constants
\* time.sleep(0.4) and time.sleep(0.1) of the hook loop, in ticks of 100 ms
DebounceTicks == 4
PollTicks == 1

\* ------------------------------------------------------------ Python data
\* Python's None, as returned by dict.get for a missing key
PyNone == "<None>"

\* truthiness of an optional string, as tested by `if not stream_url`
Truthy(v) == v # PyNone /\ v # ""

\* str.strip(): drop leading, then trailing, whitespace characters
IsSpace(c) == c \in {" ", "\t"}

RECURSIVE LStrip(_)
LStrip(s) == IF s # <<>> /\ IsSpace(Head(s)) THEN LStrip(Tail(s)) ELSE s

RECURSIVE RStrip(_)
RStrip(s) ==
    IF s # <<>> /\ IsSpace(s[Len(s)]) THEN RStrip(SubSeq(s, 1, Len(s) - 1)) ELSE s

StripNoOp(s) == s

Strip(s) == RStrip(LStrip(s))

\* str.lower() on the characters the inputs use
LowerChar(c) == IF c = "P" THEN "p" ELSE IF c = "Q" THEN "q" ELSE IF c = "X" THEN "x" ELSE c

Lower(s) == [i \in 1..Len(s) |-> LowerChar(s[i])]

\* all sequences over S of length at most n
SeqsUpTo(S, n) == UNION {[1..k -> S] : k \in 0..n}

\* what the user may type at "Enter YouTube URL: "
UrlInputs == SeqsUpTo({" ", "\t", "u"}, MaxUrlLen)

\* what the user may type at "Command: "
CommandLines ==
    {<<"p">>, <<" ", "P">>, <<"q">>, <<"Q", "\t">>, <<"x">>, <<"p", "q">>, <<>>}

\* ------------------------------------------------- yt-dlp extraction result
\* one entry of info['formats']: fmt.get('vcodec'), fmt.get('url')
FormatEntries == [vcodec : {"none", "h264", PyNone}, url : {PyNone, "f1", "f2"}]

\* outcomes of YoutubeDL(...).extract_info(yt_url, download=False):
\* it raises, returns None, or returns a dict with an optional 'url' and an
\* optional 'formats' (key missing, None, or a list)
ExtractOutcomes ==
    {[kind |-> "raise", url |-> PyNone, fkind |-> "missing", formats |-> <<>>],
     [kind |-> "none", url |-> PyNone, fkind |-> "missing", formats |-> <<>>]}
    \cup [kind : {"dict"}, url : {PyNone, "", "top"}, fkind : {"missing", "null"},
          formats : {<<>>}]
    \cup [kind : {"dict"}, url : {PyNone, "", "top"}, fkind : {"list"},
          formats : SeqsUpTo(FormatEntries, MaxFormats)]

NotCalled == [kind |-> "notcalled", url |-> PyNone, fkind |-> "missing", formats |-> <<>>]

\* the fallback loop: for fmt in formats: if fmt.get('vcodec') != 'none': ... break
RECURSIVE ScanFormatsLast(_, _, _)
ScanFormatsLast(fs, i, cur) ==
    IF i > Len(fs) THEN cur
    ELSE IF fs[i].vcodec # "none" THEN ScanFormatsLast(fs, i + 1, fs[i].url)
    ELSE ScanFormatsLast(fs, i + 1, cur)

RECURSIVE ScanFormats(_, _, _)
ScanFormats(fs, i, cur) ==
    IF i > Len(fs) THEN cur
    ELSE IF fs[i].vcodec # "none" THEN fs[i].url
    ELSE ScanFormats(fs, i + 1, cur)

\* get_video_stream_url: ret is the value returned, scanned tells whether
\* info.get('formats', []) was evaluated, exc whether an exception escaped
GetVideoStreamUrlScanFirst(out) ==
    IF out.kind # "dict" THEN [ret |-> PyNone, scanned |-> FALSE, exc |-> FALSE]
    ELSE IF out.fkind = "null" THEN [ret |-> PyNone, scanned |-> TRUE, exc |-> FALSE]
    ELSE LET r == ScanFormats(out.formats, 1, PyNone)
         IN  [ret |-> IF Truthy(r) THEN r ELSE out.url, scanned |-> TRUE, exc |-> FALSE]

GetVideoStreamUrlUnguarded(out) ==
    IF out.kind = "raise" THEN [ret |-> PyNone, scanned |-> FALSE, exc |-> FALSE]
    ELSE IF out.kind = "none" THEN [ret |-> PyNone, scanned |-> FALSE, exc |-> TRUE]
    ELSE IF Truthy(out.url) THEN [ret |-> out.url, scanned |-> FALSE, exc |-> FALSE]
    ELSE IF out.fkind = "null" THEN [ret |-> PyNone, scanned |-> TRUE, exc |-> TRUE]
    ELSE [ret |-> ScanFormats(out.formats, 1, out.url), scanned |-> TRUE, exc |-> FALSE]

GetVideoStreamUrl(out) ==
    IF out.kind = "raise"
    THEN \* extract_info raised: except Exception -> return None
         [ret |-> PyNone, scanned |-> FALSE, exc |-> FALSE]
    ELSE IF out.kind = "none"
    THEN \* info is None: info.get raises AttributeError inside the try
         [ret |-> PyNone, scanned |-> FALSE, exc |-> FALSE]
    ELSE IF Truthy(out.url)
    THEN [ret |-> out.url, scanned |-> FALSE, exc |-> FALSE]
    ELSE IF out.fkind = "null"
    THEN \* iterating None raises TypeError inside the try
         [ret |-> PyNone, scanned |-> TRUE, exc |-> FALSE]
    ELSE [ret |-> ScanFormats(out.formats, 1, out.url), scanned |-> TRUE, exc |-> FALSE]

\* ------------------------------------------------------------- VLC engine
\* vlc.State
VlcStates ==
    {"NothingSpecial", "Opening", "Buffering", "Playing", "Paused", "Stopped",
     "Ended", "Error"}

\* the states the wait loop of main treats as terminal (line 131)
LoopExitStates == {"Ended", "Error"}

\* player.pause(): toggles between Playing and Paused
AfterPause(s) == IF s = "Playing" THEN "Paused" ELSE IF s = "Paused" THEN "Playing" ELSE s

\* player.stop(): the engine reports Stopped
AfterStop(s) == "Stopped"

\* ------------------------------------------------------------------ state
VARIABLES
    use_keyboard,   \* module flag set by `import keyboard`
    mainpc,         \* position of main()
    exitCode,       \* process exit status; -1 while the process runs
    steps,          \* the steps main() has executed, in order
    rawUrl,         \* the line read at "Enter YouTube URL: "
    yt_url,         \* rawUrl.strip()
    info,           \* the outcome of extract_info seen by the resolver
    scanned,        \* whether the resolver read the format list
    stream_url,     \* the value returned by get_video_stream_url
    playerExists,   \* vlc.MediaPlayer(stream_url) was constructed
    playRet,        \* return value of player.play(); 1 before the call
    pstate,         \* player.get_state()
    lpc,            \* position of listen_for_controls
    commands,       \* commands the listener issued to the player, in order
    linesRead,      \* lines the listener read at "Command: ", in order
    qHeld,          \* keyboard.is_pressed('q')
    pHeld,          \* keyboard.is_pressed('p')
    timer,          \* ticks left of the listener's current time.sleep
    sinceToggle,    \* ticks since the last player.pause() (capped)
    sinceFirst,     \* ticks since the current 'p' press was first seen (capped)
    pToggles,       \* player.pause() calls made for the current 'p' press
    pRelEarly,      \* the current 'p' press ended within DebounceTicks of being seen
    uncaught        \* where an exception propagated out uncaught

vars ==
    <<use_keyboard, mainpc, exitCode, steps, rawUrl, yt_url, info, scanned,
      stream_url, playerExists, playRet, pstate, lpc, commands, linesRead,
      qHeld, pHeld, timer, sinceToggle, sinceFirst, pToggles, pRelEarly, uncaught>>

resolveVars == <<rawUrl, yt_url, info, scanned, stream_url>>

listenerVars == <<lpc, commands, linesRead>>

hookVars == <<qHeld, pHeld, timer, sinceToggle, sinceFirst, pToggles, pRelEarly>>

Init ==
    /\ use_keyboard \in BOOLEAN
    /\ mainpc = "input"
    /\ exitCode = -1
    /\ steps = <<>>
    /\ rawUrl = <<>>
    /\ yt_url = <<>>
    /\ info = NotCalled
    /\ scanned = FALSE
    /\ stream_url = PyNone
    /\ playerExists = FALSE
    /\ playRet = 1
    /\ pstate = "NothingSpecial"
    /\ lpc = "idle"
    /\ commands = <<>>
    /\ linesRead = <<>>
    /\ qHeld = FALSE
    /\ pHeld = FALSE
    /\ timer = 0
    /\ sinceToggle = GapCap
    /\ sinceFirst = GapCap
    /\ pToggles = 0
    /\ pRelEarly = FALSE
    /\ uncaught = {}

Alive == mainpc # "exited"

\* sys.exit(code), or the interpreter ending
Exit(code) == mainpc' = "exited" /\ exitCode' = code

\* --------------------------------------------------------------- main()
\* lines 96-99: yt_url = input(...).strip(); empty -> sys.exit(1)
MainReadUrl ==
    /\ mainpc = "input"
    /\ \E raw \in UrlInputs :
        /\ rawUrl' = raw
        /\ yt_url' = Strip(raw)
        /\ IF Strip(raw) = <<>> THEN Exit(1) ELSE mainpc' = "resolve" /\ exitCode' = exitCode
    /\ steps' = Append(steps, "input")
    /\ UNCHANGED <<use_keyboard, info, scanned, stream_url, playerExists, playRet,
                   pstate, listenerVars, hookVars, uncaught>>

\* line 96: input() raises EOFError at end of input; nothing catches it
MainInputEOF ==
    /\ mainpc = "input"
    /\ Exit(1)
    /\ steps' = Append(steps, "input")
    /\ uncaught' = uncaught \cup {"main"}
    /\ UNCHANGED <<use_keyboard, resolveVars, playerExists, playRet, pstate,
                   listenerVars, hookVars>>

\* lines 101-104: stream_url = get_video_stream_url(yt_url); falsy -> sys.exit(1)
MainResolve ==
    /\ mainpc = "resolve"
    /\ \E out \in ExtractOutcomes :
        LET r == GetVideoStreamUrl(out) IN
        /\ info' = out
        /\ scanned' = r.scanned
        /\ stream_url' = IF r.exc THEN stream_url ELSE r.ret
        /\ uncaught' = IF r.exc THEN uncaught \cup {"resolve"} ELSE uncaught
        /\ IF r.exc \/ ~Truthy(r.ret)
           THEN Exit(1)
           ELSE mainpc' = "construct" /\ exitCode' = exitCode
    /\ steps' = Append(steps, "resolve")
    /\ UNCHANGED <<use_keyboard, rawUrl, yt_url, playerExists, playRet, pstate,
                   listenerVars, hookVars>>

\* lines 107-111: player = vlc.MediaPlayer(stream_url); an exception -> sys.exit(1).
\* The locals of the resolution (the line read, yt_url, info) are dead from here on.
MainConstruct ==
    /\ mainpc = "construct"
    /\ \E raised \in BOOLEAN :
        IF raised
        THEN /\ Exit(1)
             /\ UNCHANGED <<playerExists, rawUrl, yt_url, info, scanned>>
        ELSE /\ mainpc' = "play"
             /\ exitCode' = exitCode
             /\ playerExists' = TRUE
             /\ rawUrl' = <<>>
             /\ yt_url' = <<>>
             /\ info' = NotCalled
             /\ scanned' = FALSE
    /\ steps' = Append(steps, "construct")
    /\ UNCHANGED <<use_keyboard, stream_url, playRet, pstate, listenerVars, hookVars,
                   uncaught>>

\* lines 114-117: ret = player.play(); -1 -> sys.exit(1)
MainPlayUnchecked ==
    /\ mainpc = "play"
    /\ \E ret \in {0, -1} :
        /\ playRet' = ret
        /\ mainpc' = "settle"
        /\ exitCode' = exitCode
        /\ pstate' = IF ret = -1 THEN pstate ELSE "Opening"
    /\ steps' = Append(steps, "play")
    /\ UNCHANGED <<use_keyboard, resolveVars, playerExists, listenerVars, hookVars,
                   uncaught>>

MainPlay ==
    /\ mainpc = "play"
    /\ \E ret \in {0, -1} :
        /\ playRet' = ret
        /\ IF ret = -1
           THEN Exit(1) /\ pstate' = pstate
           ELSE mainpc' = "settle" /\ exitCode' = exitCode /\ pstate' = "Opening"
    /\ steps' = Append(steps, "play")
    /\ UNCHANGED <<use_keyboard, resolveVars, playerExists, listenerVars, hookVars,
                   uncaught>>

\* lines 120-121: time.sleep(1); print the initial state
MainSettle ==
    /\ mainpc = "settle"
    /\ mainpc' = "launch"
    /\ steps' = Append(steps, "settle")
    /\ UNCHANGED <<use_keyboard, exitCode, resolveVars, playerExists, playRet, pstate,
                   listenerVars, hookVars, uncaught>>

\* lines 124-125: threading.Thread(target=listen_for_controls, daemon=True).start()
MainLaunch ==
    /\ mainpc = "launch"
    /\ mainpc' = "poll"
    /\ lpc' = IF use_keyboard THEN "check_q" ELSE "input"
    /\ steps' = Append(steps, "launch")
    /\ UNCHANGED <<use_keyboard, exitCode, resolveVars, playerExists, playRet, pstate,
                   commands, linesRead, hookVars, uncaught>>

\* lines 130-132: state = player.get_state(); Ended or Error -> break
MainPoll ==
    /\ mainpc = "poll"
    /\ mainpc' = IF pstate \in LoopExitStates THEN "print_end" ELSE "sleep"
    /\ steps' = IF "wait" \in {steps[i] : i \in 1..Len(steps)} THEN steps
                ELSE Append(steps, "wait")
    /\ UNCHANGED <<use_keyboard, exitCode, resolveVars, playerExists, playRet, pstate,
                   listenerVars, hookVars, uncaught>>

\* line 133: time.sleep(1)
MainSleep ==
    /\ mainpc = "sleep"
    /\ mainpc' = "poll"
    /\ UNCHANGED <<use_keyboard, exitCode, steps, resolveVars, playerExists, playRet,
                   pstate, listenerVars, hookVars, uncaught>>

\* lines 134-135: KeyboardInterrupt inside the try of the wait loop
MainInterrupt ==
    /\ mainpc \in {"poll", "sleep"}
    /\ mainpc' = "print_end"
    /\ UNCHANGED <<use_keyboard, exitCode, steps, resolveVars, playerExists, playRet,
                   pstate, listenerVars, hookVars, uncaught>>

\* line 137 and the return of main(): the daemon listener (line 124) is not
\* joined. The interpreter then finalises: with the listener blocked in input()
\* on a standard input that is a terminal the process ends with status 0; on
\* one that is not (a pipe left open), CPython's finalisation cannot take the
\* lock of the stdin buffer the daemon thread holds and aborts (SIGABRT, 134).
MainFinish ==
    /\ mainpc = "print_end"
    /\ mainpc' = "exited"
    /\ exitCode' \in (IF lpc = "input" THEN {0, 134} ELSE {0})
    /\ UNCHANGED <<use_keyboard, steps, resolveVars, playerExists, playRet, pstate,
                   listenerVars, hookVars, uncaught>>

\* ----------------------------------------------------------- the engine
\* the engine's own progress while a media plays, as get_state reports it
EngineAdvance ==
    /\ Alive /\ playerExists
    /\ pstate \in {"Opening", "Buffering", "Playing"}
    /\ pstate' = CASE pstate = "Opening" -> "Buffering"
                   [] pstate = "Buffering" -> "Playing"
                   [] pstate = "Playing" -> "Ended"
    /\ UNCHANGED <<use_keyboard, mainpc, exitCode, steps, resolveVars, playerExists,
                   playRet, listenerVars, hookVars, uncaught>>

EngineError ==
    /\ Alive /\ playerExists
    /\ pstate \in {"Opening", "Buffering", "Playing", "Paused"}
    /\ pstate' = "Error"
    /\ UNCHANGED <<use_keyboard, mainpc, exitCode, steps, resolveVars, playerExists,
                   playRet, listenerVars, hookVars, uncaught>>

\* ------------------------------------------------- listen_for_controls
Min(a, b) == IF a < b THEN a ELSE b

\* lines 83-93, line-input mode: one turn of the loop
ListenerReadLineRaw ==
    /\ Alive /\ lpc = "input"
    /\ Len(linesRead) < MaxLines
    /\ \E line \in CommandLines :
        LET command == line IN
        /\ linesRead' = Append(linesRead, line)
        /\ IF command = <<"q">>
           THEN /\ commands' = Append(commands, "stop")
                /\ pstate' = AfterStop(pstate)
                /\ lpc' = "done"
           ELSE IF command = <<"p">>
           THEN /\ commands' = Append(commands, "pause")
                /\ pstate' = AfterPause(pstate)
                /\ lpc' = lpc
           ELSE UNCHANGED <<commands, pstate, lpc>>
    /\ UNCHANGED <<use_keyboard, mainpc, exitCode, steps, resolveVars, playerExists,
                   playRet, hookVars, uncaught>>

ListenerReadLine ==
    /\ Alive /\ lpc = "input"
    /\ Len(linesRead) < MaxLines
    /\ \E line \in CommandLines :
        LET command == Lower(Strip(line)) IN
        /\ linesRead' = Append(linesRead, line)
        /\ IF command = <<"q">>
           THEN /\ commands' = Append(commands, "stop")
                /\ pstate' = AfterStop(pstate)
                /\ lpc' = "done"
           ELSE IF command = <<"p">>
           THEN /\ commands' = Append(commands, "pause")
                /\ pstate' = AfterPause(pstate)
                /\ lpc' = lpc
           ELSE UNCHANGED <<commands, pstate, lpc>>
    /\ UNCHANGED <<use_keyboard, mainpc, exitCode, steps, resolveVars, playerExists,
                   playRet, hookVars, uncaught>>

\* line 84: input() raises EOFError at end of input; the thread dies with it
ListenerEOF ==
    /\ Alive /\ lpc = "input"
    /\ lpc' = "crashed"
    /\ uncaught' = uncaught \cup {"listener"}
    /\ UNCHANGED <<use_keyboard, mainpc, exitCode, steps, resolveVars, playerExists,
                   playRet, pstate, commands, linesRead, hookVars>>

\* lines 70-73, hook mode: if keyboard.is_pressed('q'): player.stop(); break
HookCheckQ ==
    /\ Alive /\ lpc = "check_q"
    /\ IF qHeld
       THEN /\ commands' = Append(commands, "stop")
            /\ pstate' = AfterStop(pstate)
            /\ lpc' = "done"
       ELSE /\ lpc' = "check_p"
            /\ UNCHANGED <<commands, pstate>>
    /\ UNCHANGED <<use_keyboard, mainpc, exitCode, steps, resolveVars, playerExists,
                   playRet, linesRead, hookVars, uncaught>>

\* lines 75-79: if keyboard.is_pressed('p'): player.pause(); time.sleep(0.4)
\* and then, on either branch, time.sleep(0.1)
HookCheckPNoDebounce ==
    /\ Alive /\ lpc = "check_p"
    /\ IF pHeld
       THEN /\ Len(commands) < MaxCmds
            /\ commands' = Append(commands, "pause")
            /\ pstate' = AfterPause(pstate)
            /\ lpc' = "sleep"
            /\ timer' = PollTicks
            /\ sinceToggle' = 0
            /\ sinceFirst' = IF pToggles = 0 THEN 0 ELSE sinceFirst
            /\ pToggles' = pToggles + 1
       ELSE /\ lpc' = "sleep"
            /\ timer' = PollTicks
            /\ UNCHANGED <<commands, pstate, sinceToggle, sinceFirst, pToggles>>
    /\ UNCHANGED <<use_keyboard, mainpc, exitCode, steps, resolveVars, playerExists,
                   playRet, linesRead, qHeld, pHeld, pRelEarly, uncaught>>

HookCheckP ==
    /\ Alive /\ lpc = "check_p"
    /\ IF pHeld
       THEN /\ Len(commands) < MaxCmds
            /\ commands' = Append(commands, "pause")
            /\ pstate' = AfterPause(pstate)
            /\ lpc' = "debounce"
            /\ timer' = DebounceTicks
            /\ sinceToggle' = 0
            /\ sinceFirst' = IF pToggles = 0 THEN 0 ELSE sinceFirst
            /\ pToggles' = pToggles + 1
       ELSE /\ lpc' = "sleep"
            /\ timer' = PollTicks
            /\ UNCHANGED <<commands, pstate, sinceToggle, sinceFirst, pToggles>>
    /\ UNCHANGED <<use_keyboard, mainpc, exitCode, steps, resolveVars, playerExists,
                   playRet, linesRead, qHeld, pHeld, pRelEarly, uncaught>>

\* line 78 returns: the debounce sleep is over, line 79 starts
HookDebounceEnd ==
    /\ Alive /\ lpc = "debounce" /\ timer = 0
    /\ lpc' = "sleep"
    /\ timer' = PollTicks
    /\ UNCHANGED <<use_keyboard, mainpc, exitCode, steps, resolveVars, playerExists,
                   playRet, pstate, commands, linesRead, qHeld, pHeld, sinceToggle,
                   sinceFirst, pToggles, pRelEarly, uncaught>>

\* line 79 returns: back to the top of the while loop
HookSleepEnd ==
    /\ Alive /\ lpc = "sleep" /\ timer = 0
    /\ lpc' = "check_q"
    /\ UNCHANGED <<use_keyboard, mainpc, exitCode, steps, resolveVars, playerExists,
                   playRet, pstate, commands, linesRead, hookVars, uncaught>>

\* 100 ms pass: a running time.sleep gets shorter, the elapsed times longer
Tick ==
    /\ Alive /\ lpc \in {"check_q", "check_p", "debounce", "sleep"}
    /\ timer' = IF timer > 0 THEN timer - 1 ELSE 0
    /\ sinceToggle' = Min(sinceToggle + 1, GapCap)
    /\ sinceFirst' = Min(sinceFirst + 1, GapCap)
    /\ UNCHANGED <<use_keyboard, mainpc, exitCode, steps, resolveVars, playerExists,
                   playRet, pstate, listenerVars, qHeld, pHeld, pToggles, pRelEarly,
                   uncaught>>

\* the user's keys, as keyboard.is_pressed reports them
HookKeysLive ==
    /\ Alive /\ use_keyboard
    /\ mainpc \in {"launch", "poll", "sleep", "print_end"}
    /\ lpc \notin {"done"}

PressQ ==
    /\ HookKeysLive /\ ~qHeld
    /\ qHeld' = TRUE
    /\ UNCHANGED <<use_keyboard, mainpc, exitCode, steps, resolveVars, playerExists,
                   playRet, pstate, listenerVars, pHeld, timer, sinceToggle,
                   sinceFirst, pToggles, pRelEarly, uncaught>>

ReleaseQ ==
    /\ HookKeysLive /\ qHeld
    /\ qHeld' = FALSE
    /\ UNCHANGED <<use_keyboard, mainpc, exitCode, steps, resolveVars, playerExists,
                   playRet, pstate, listenerVars, pHeld, timer, sinceToggle,
                   sinceFirst, pToggles, pRelEarly, uncaught>>

PressP ==
    /\ HookKeysLive /\ ~pHeld
    /\ pHeld' = TRUE
    /\ pToggles' = 0
    /\ pRelEarly' = FALSE
    /\ sinceFirst' = GapCap
    /\ UNCHANGED <<use_keyboard, mainpc, exitCode, steps, resolveVars, playerExists,
                   playRet, pstate, listenerVars, qHeld, timer, sinceToggle, uncaught>>

ReleaseP ==
    /\ HookKeysLive /\ pHeld
    /\ pHeld' = FALSE
    /\ pRelEarly' = (pToggles >= 1 /\ sinceFirst < DebounceTicks)
    /\ UNCHANGED <<use_keyboard, mainpc, exitCode, steps, resolveVars, playerExists,
                   playRet, pstate, listenerVars, qHeld, timer, sinceToggle,
                   sinceFirst, pToggles, uncaught>>

\* ---------------------------------------------------------- specification
Next ==
    \/ MainReadUrl
    \/ MainInputEOF
    \/ MainResolve
    \/ MainConstruct
    \/ MainPlay
    \/ MainSettle
    \/ MainLaunch
    \/ MainPoll
    \/ MainSleep
    \/ MainInterrupt
    \/ MainFinish
    \/ EngineAdvance
    \/ EngineError
    \/ ListenerReadLine
    \/ ListenerEOF
    \/ HookCheckQ
    \/ HookCheckP
    \/ HookDebounceEnd
    \/ HookSleepEnd
    \/ Tick
    \/ PressQ
    \/ ReleaseQ
    \/ PressP
    \/ ReleaseP

Spec == Init /\ [][Next]_vars

\* ----------------------------------------------------------------- claims
Range(q) == {q[i] : i \in 1..Len(q)}

Blank(s) == \A i \in 1..Len(s) : s[i] \in {" ", "\t"}

\* the line read and yt_url are those of this run until the player is built
UrlLive == steps # <<>> /\ "construct" \notin Range(steps)

Order == <<"input", "resolve", "construct", "play", "settle", "launch", "wait">>

\* the fallback's choice, stated on the list: the entry with a video codec
\* that has only "none" entries before it
IsFirstVideo(fs, k) ==
    /\ k \in 1..Len(fs)
    /\ fs[k].vcodec # "none"
    /\ \A j \in 1..(k - 1) : fs[j].vcodec = "none"

\* C1: once the listener has issued stop, the next state poll of the wait
\* loop of main leaves the loop (towards the completion message).
C1_StopEndsWaitLoop ==
    [][("stop" \in Range(commands) /\ mainpc = "poll" /\ mainpc' # "poll")
         => mainpc' = "print_end"]_vars

\* C2: a URL line that is empty or all whitespace makes main exit with
\* status 1 right after reading it: the resolver is not called, no player is
\* constructed and the listener is not started.
C2_BlankUrlExits ==
    (UrlLive /\ Blank(rawUrl)) =>
        /\ mainpc = "exited" /\ exitCode = 1
        /\ steps = <<"input">>
        /\ info = NotCalled /\ stream_url = PyNone
        /\ ~playerExists
        /\ lpc = "idle" /\ commands = <<>>

C2_Witness ==
    /\ rawUrl = <<" ", "\t">>
    /\ mainpc = "exited" /\ exitCode = 1 /\ steps = <<"input">>

\* C3: with no top-level URL and a format list that has "none" entries
\* before an entry of another codec, the resolver returns the URL of the
\* first entry whose codec is not "none".
C3_FallbackFirstVideo ==
    (/\ info.kind = "dict" /\ ~Truthy(info.url) /\ info.fkind = "list"
     /\ \E k \in 2..Len(info.formats) : IsFirstVideo(info.formats, k))
    => \A k \in 1..Len(info.formats) :
           IsFirstVideo(info.formats, k) => stream_url = info.formats[k].url

C3_Witness ==
    /\ info.kind = "dict" /\ info.url = PyNone
    /\ info.formats = <<[vcodec |-> "none", url |-> "f1"],
                        [vcodec |-> "h264", url |-> "f2"],
                        [vcodec |-> "h264", url |-> "f1"]>>
    /\ stream_url = "f2"
    /\ mainpc = "construct"

\* C4: the resolver returns no stream reference, and lets no exception out,
\* when the library raises, returns None, or returns a result without a
\* top-level URL in which no video-carrying format has a URL (the list being
\* empty, missing or all "none" included); main then exits with status 1.
C4_ResolutionFails ==
    (\/ info.kind \in {"raise", "none"}
     \/ /\ info.kind = "dict" /\ ~Truthy(info.url)
        /\ \A i \in 1..Len(info.formats) :
               info.formats[i].vcodec = "none" \/ ~Truthy(info.formats[i].url))
    => /\ ~Truthy(stream_url)
       /\ "resolve" \notin uncaught
       /\ mainpc = "exited" /\ exitCode = 1
       /\ ~playerExists

C4_Witness ==
    /\ info.kind = "dict" /\ info.url = ""
    /\ info.formats = <<[vcodec |-> "none", url |-> "f1"],
                        [vcodec |-> "none", url |-> "f2"]>>
    /\ ~Truthy(stream_url)
    /\ mainpc = "exited" /\ exitCode = 1

\* C5: with the top-level URL populated the resolver returns that URL and
\* does not read the format list.
C5_TopLevelUrlWins ==
    (info.kind = "dict" /\ Truthy(info.url)) =>
        (stream_url = info.url /\ ~scanned)

C5_Witness ==
    /\ info.kind = "dict" /\ info.url = "top"
    /\ info.formats = <<[vcodec |-> "h264", url |-> "f1"]>>
    /\ stream_url = "top"
    /\ mainpc = "construct"

\* a line that is the one letter c, in either case, between whitespace
IsLetterLine(line, c) ==
    \E i \in 1..Len(line) :
        /\ line[i] \in c
        /\ \A j \in 1..Len(line) : j # i => line[j] \in {" ", "\t"}

QuitAt == {i \in 1..Len(linesRead) : IsLetterLine(linesRead[i], {"q", "Q"})}

PausesRead ==
    {i \in 1..Len(linesRead) :
        /\ IsLetterLine(linesRead[i], {"p", "P"})
        /\ \A j \in QuitAt : i < j}

\* C6: in line-input mode the commands issued are one pause per 'p' line
\* read before the first 'q' line, then one stop for that 'q' line, after
\* which no line is read; any other line issues nothing.
C6_LineCommands ==
    ~use_keyboard =>
        /\ Len(commands) = Cardinality(PausesRead) + (IF QuitAt = {} THEN 0 ELSE 1)
        /\ \A k \in 1..Cardinality(PausesRead) : commands[k] = "pause"
        /\ QuitAt # {} =>
              /\ commands[Len(commands)] = "stop"
              /\ QuitAt = {Len(linesRead)}
              /\ lpc = "done"
        /\ (QuitAt = {} /\ lpc # "idle") => lpc \in {"input", "crashed"}

C6_Witness ==
    /\ linesRead = << <<"x">>, <<" ", "P">>, <<"Q", "\t">> >>
    /\ commands = <<"pause", "stop">>
    /\ lpc = "done"

\* C7: the wait loop ends at a poll that sees Ended or Error and at an
\* interrupt; main then prints the completion message and the process ends
\* with status 0 whatever the listener is doing.
C7_WaitLoopEnds ==
    /\ [][(mainpc = "poll" /\ mainpc' # "poll" /\ pstate \in {"Ended", "Error"})
            => mainpc' = "print_end"]_vars
    /\ [](mainpc \in {"poll", "sleep"} => ENABLED MainInterrupt)
    /\ [][(mainpc \in {"poll", "sleep"} /\ mainpc' \notin {"poll", "sleep"})
            => mainpc' = "print_end"]_vars
    /\ [](mainpc = "print_end" => ENABLED MainFinish)
    /\ [][(mainpc = "print_end" /\ mainpc' # "print_end")
            => (mainpc' = "exited" /\ exitCode' = 0)]_vars
    /\ []((mainpc = "exited" /\ "launch" \in Range(steps)) => exitCode = 0)

\* C8: main runs its steps once each in the fixed order; a failure of the
\* input, the resolution, the construction or play ends the process with
\* status 1 before any later step; the listener runs, and commands are
\* issued, only after play returned without the failure value.
C8_StepsInOrder ==
    /\ Len(steps) <= Len(Order)
    /\ \A i \in 1..Len(steps) : steps[i] = Order[i]
    /\ (UrlLive /\ yt_url = <<>>) =>
           (mainpc = "exited" /\ exitCode = 1 /\ Len(steps) = 1)
    /\ (Len(steps) >= 2 /\ ~Truthy(stream_url)) =>
           (mainpc = "exited" /\ exitCode = 1 /\ Len(steps) = 2)
    /\ (Len(steps) >= 3 /\ ~playerExists) =>
           (mainpc = "exited" /\ exitCode = 1 /\ Len(steps) = 3)
    /\ playRet = -1 => (mainpc = "exited" /\ exitCode = 1 /\ Len(steps) = 4)
    /\ playerExists => Truthy(stream_url)
    /\ (lpc # "idle" \/ commands # <<>>) =>
           (playerExists /\ playRet = 0 /\ Len(steps) >= 6)
    /\ exitCode = 0 => Len(steps) >= 6
    /\ (mainpc = "exited") = (exitCode # -1)

C8_Witness ==
    /\ playRet = -1
    /\ mainpc = "exited" /\ exitCode = 1
    /\ steps = <<"input", "resolve", "construct", "play">>

\* C9: the listener issues at most one stop, nothing after it, and has
\* issued stop whenever it is no longer listening.
C9_QuitOnlyByStop ==
    /\ Cardinality({i \in 1..Len(commands) : commands[i] = "stop"}) <= 1
    /\ \A i \in 1..Len(commands) : commands[i] = "stop" => i = Len(commands)
    /\ lpc \notin {"idle", "input", "check_q", "check_p", "debounce", "sleep"}
           => "stop" \in Range(commands)

\* C10: in hook mode a pause is followed by the whole debounce sleep and
\* then the poll sleep before the next key check, two pauses are at least
\* the debounce time apart, and a press released before its debounce sleep
\* is over counts as one pause.
C10_Debounce ==
    /\ [][(Len(commands') > Len(commands) /\ commands'[Len(commands')] = "pause"
           /\ use_keyboard)
            => /\ lpc' = "debounce" /\ timer' = DebounceTicks
               /\ ("pause" \in Range(commands) => sinceToggle >= DebounceTicks)]_vars
    /\ [][(lpc = "debounce" /\ lpc' # "debounce")
            => (timer = 0 /\ lpc' = "sleep" /\ timer' = PollTicks)]_vars
    /\ [][(lpc = "sleep" /\ lpc' # "sleep") => (timer = 0 /\ lpc' = "check_q")]_vars
    /\ [](pRelEarly => pToggles = 1)

C10_Witness ==
    /\ use_keyboard
    /\ pRelEarly /\ pToggles = 1
    /\ commands = <<"pause", "pause">>
    /\ lpc = "check_p" /\ ~pHeld

====
